---- MODULE Spec2Model ----
(***************************************************************************)
(* A model of utm_visualizer.py: the TuringMachine engine, the textual     *)
(* description parser parse_tm_description, and the event handlers of      *)
(* UTMVisualizer (load / parse & create / reset / step / run / stop and    *)
(* the root.after timer).                                                  *)
(*                                                                         *)
(* Python strings are TLA+ strings; a character is a string of length 1.   *)
(* A tape is a sequence of cells, each cell a string, as list(tape_str)    *)
(* and the assignment tape[head] = write make it.  Python indices are      *)
(* 0-based, so Python's tape[h] is tape[h + 1] here.                       *)
(***************************************************************************)
EXTENDS Integers, Sequences, FiniteSets, TLC

(***************************************************************************)
(* str methods used by the parser                                          *)
(***************************************************************************)

\* s[i] for a 1-based i
Ch(s, i) == SubSeq(s, i, i)

\* characters str.strip() removes
Whitespace == {" ", "\t", "\n", "\r", "\f"}

\* characters str.splitlines() breaks lines at
LineBreaks == {"\n", "\r", "\f"}

LowerLetters == "abcdefghijklmnopqrstuvwxyz"

UpperLetters == "ABCDEFGHIJKLMNOPQRSTUVWXYZ"

\* the position of character c in the alphabet al, 0 when it is not there
IndexIn(al, c) ==
    IF \E i \in 1..Len(al) : Ch(al, i) = c
    THEN CHOOSE i \in 1..Len(al) : Ch(al, i) = c
    ELSE 0

RECURSIVE MapCase(_, _, _)
\* s with every character of alphabet from replaced by its partner in to
MapCase(s, from, to) ==
    IF s = "" THEN ""
    ELSE LET c == Ch(s, 1)
             k == IndexIn(from, c)
         IN  (IF k = 0 THEN c ELSE Ch(to, k)) \o MapCase(Tail(s), from, to)

\* str.upper()
Upper(s) == MapCase(s, LowerLetters, UpperLetters)

\* str.lower()
Lower(s) == MapCase(s, UpperLetters, LowerLetters)

RECURSIVE LStrip(_)
LStrip(s) ==
    IF s # "" /\ Ch(s, 1) \in Whitespace THEN LStrip(Tail(s)) ELSE s

RECURSIVE RStrip(_)
RStrip(s) ==
    IF s # "" /\ Ch(s, Len(s)) \in Whitespace
    THEN RStrip(SubSeq(s, 1, Len(s) - 1))
    ELSE s

\* str.strip()
Strip(s) == RStrip(LStrip(s))

\* str.startswith(p)
StartsWith(s, p) == Len(s) >= Len(p) /\ SubSeq(s, 1, Len(p)) = p

\* str.find(sub) + 1: the 1-based position of the first occurrence, 0 if none
Find(s, sub) ==
    LET at == {i \in 1..(Len(s) - Len(sub) + 1) :
                  SubSeq(s, i, i + Len(sub) - 1) = sub}
    IN  IF at = {} THEN 0 ELSE CHOOSE i \in at : \A j \in at : i <= j

\* sub in s
Contains(s, sub) == Find(s, sub) # 0

RECURSIVE Split(_, _, _)
\* s.split(sep, maxsplit): at most maxsplit cuts, at the leftmost separators
Split(s, sep, maxsplit) ==
    LET k == Find(s, sep)
    IN  IF maxsplit = 0 \/ k = 0 THEN <<s>>
        ELSE <<SubSeq(s, 1, k - 1)>>
             \o Split(SubSeq(s, k + Len(sep), Len(s)), sep, maxsplit - 1)

RECURSIVE SplitLines(_)
\* str.splitlines(): "\r\n" is one break, a final break opens no new line
SplitLines(s) ==
    LET brk == {i \in 1..Len(s) : Ch(s, i) \in LineBreaks}
        k == IF brk = {} THEN 0 ELSE CHOOSE i \in brk : \A j \in brk : i <= j
        n == IF k # 0 /\ k < Len(s) /\ Ch(s, k) = "\r" /\ Ch(s, k + 1) = "\n"
             THEN k + 2 ELSE k + 1
    IN  IF s = "" THEN <<>>
        ELSE IF k = 0 THEN <<s>>
        ELSE <<SubSeq(s, 1, k - 1)>> \o SplitLines(SubSeq(s, n, Len(s)))

\* list(s): the characters of s
List(s) == [i \in 1..Len(s) |-> Ch(s, i)]

\* [s.strip() for s in parts]
StripAll(parts) == [i \in 1..Len(parts) |-> Strip(parts[i])]

(***************************************************************************)
(* class TuringMachine                                                     *)
(***************************************************************************)

\* [blank] * n
Blanks(blank, n) == [i \in 1..n |-> blank]

\* TuringMachine.__init__ without the single blank of an empty tape_str
TuringMachine_EmptyTape(tape_str, transitions, start_state, accept_state, reject_state, blank) ==
    [blank        |-> blank,
     tape         |-> List(tape_str),
     head         |-> 0,
     start_state  |-> start_state,
     state        |-> start_state,
     accept_state |-> accept_state,
     reject_state |-> reject_state,
     transitions  |-> transitions]

\* TuringMachine.__init__
TuringMachine(tape_str, transitions, start_state, accept_state, reject_state, blank) ==
    [blank        |-> blank,
     tape         |-> IF tape_str # "" THEN List(tape_str) ELSE <<blank>>,
     head         |-> 0,
     start_state  |-> start_state,
     state        |-> start_state,
     accept_state |-> accept_state,
     reject_state |-> reject_state,
     transitions  |-> transitions]

\* ensure_head_in_bounds adding a single blank however far left the head is
ensure_head_in_bounds_OneBlank(m) ==
    IF m.head < 0
    THEN [m EXCEPT !.tape = <<m.blank>> \o m.tape, !.head = 0]
    ELSE IF m.head >= Len(m.tape)
    THEN LET add == Blanks(m.blank, m.head - Len(m.tape) + 1)
         IN  [m EXCEPT !.tape = m.tape \o add]
    ELSE m

\* ensure_head_in_bounds adding one blank too many on the left
ensure_head_in_bounds_OffByOne(m) ==
    IF m.head < 0
    THEN LET add == Blanks(m.blank, 1 - m.head)
         IN  [m EXCEPT !.tape = add \o m.tape, !.head = m.head + Len(add)]
    ELSE IF m.head >= Len(m.tape)
    THEN LET add == Blanks(m.blank, m.head - Len(m.tape) + 1)
         IN  [m EXCEPT !.tape = m.tape \o add]
    ELSE m

\* TuringMachine.ensure_head_in_bounds
ensure_head_in_bounds(m) ==
    IF m.head < 0
    THEN LET add == Blanks(m.blank, -m.head)
         IN  [m EXCEPT !.tape = add \o m.tape, !.head = m.head + Len(add)]
    ELSE IF m.head >= Len(m.tape)
    THEN LET add == Blanks(m.blank, m.head - Len(m.tape) + 1)
         IN  [m EXCEPT !.tape = m.tape \o add]
    ELSE m

\* the halt test without the reject state
Halted_AcceptOnly(m) == m.state = m.accept_state

\* state in (accept_state, reject_state)
Halted(m) == m.state \in {m.accept_state, m.reject_state}

\* the moves with L and R exchanged
MoveHead_Swapped(head, move) ==
    IF Upper(move) = "R" THEN head - 1
    ELSE IF Upper(move) = "L" THEN head + 1
    ELSE head

\* the moves with R going two cells
MoveHead_TwoRight(head, move) ==
    IF Upper(move) = "R" THEN head + 2
    ELSE IF Upper(move) = "L" THEN head - 1
    ELSE head

\* the head after a move, step's if/elif on move.upper()
MoveHead(head, move) ==
    IF Upper(move) = "R" THEN head + 1
    ELSE IF Upper(move) = "L" THEN head - 1
    ELSE head

\* StepAtHead leaving the state as it is when no entry matches
StepAtHead_NoReject(n) ==
    LET symbol == n.tape[n.head + 1]
        key == <<n.state, symbol>>
    IN  IF key \notin DOMAIN n.transitions
        THEN [tm |-> n, ret |-> FALSE]
        ELSE LET write == n.transitions[key][1]
                 move == n.transitions[key][2]
                 new_state == n.transitions[key][3]
             IN  [tm |-> [n EXCEPT !.tape[n.head + 1] = write,
                                   !.head = MoveHead(n.head, move),
                                   !.state = new_state],
                  ret |-> TRUE]

\* StepAtHead applying an entry without writing its symbol
StepAtHead_NoWrite(n) ==
    LET symbol == n.tape[n.head + 1]
        key == <<n.state, symbol>>
    IN  IF key \notin DOMAIN n.transitions
        THEN [tm |-> [n EXCEPT !.state = n.reject_state], ret |-> FALSE]
        ELSE LET move == n.transitions[key][2]
                 new_state == n.transitions[key][3]
             IN  [tm |-> [n EXCEPT !.head = MoveHead(n.head, move),
                                   !.state = new_state],
                  ret |-> TRUE]

\* StepAtHead returning False when the entry applied names a halting state
StepAtHead_FalseOnEntering(n) ==
    LET symbol == n.tape[n.head + 1]
        key == <<n.state, symbol>>
    IN  IF key \notin DOMAIN n.transitions
        THEN [tm |-> [n EXCEPT !.state = n.reject_state], ret |-> FALSE]
        ELSE LET write == n.transitions[key][1]
                 move == n.transitions[key][2]
                 new_state == n.transitions[key][3]
             IN  [tm |-> [n EXCEPT !.tape[n.head + 1] = write,
                                   !.head = MoveHead(n.head, move),
                                   !.state = new_state],
                  ret |-> new_state \notin {n.accept_state, n.reject_state}]

\* step() from the read on, the head of n being within the stored cells: the
\* machine after the call and the value returned
StepAtHead(n) ==
    LET symbol == n.tape[n.head + 1]
        key == <<n.state, symbol>>
    IN  IF key \notin DOMAIN n.transitions
        THEN [tm |-> [n EXCEPT !.state = n.reject_state], ret |-> FALSE]
        ELSE LET write == n.transitions[key][1]
                 move == n.transitions[key][2]
                 new_state == n.transitions[key][3]
             IN  [tm |-> [n EXCEPT !.tape[n.head + 1] = write,
                                   !.head = MoveHead(n.head, move),
                                   !.state = new_state],
                  ret |-> TRUE]

\* step() bringing the head into bounds before the halt test
step_NormalizeFirst(m) ==
    IF Halted(m) THEN [tm |-> ensure_head_in_bounds(m), ret |-> FALSE]
    ELSE StepAtHead(ensure_head_in_bounds(m))

\* TuringMachine.step: the machine after the call and the value returned
step(m) ==
    IF Halted(m) THEN [tm |-> m, ret |-> FALSE]
    ELSE StepAtHead(ensure_head_in_bounds(m))

\* reset() leaving the head where it is
reset_KeepsHead(m, tape_str) ==
    [m EXCEPT !.tape = IF tape_str # "" THEN List(tape_str) ELSE <<m.blank>>,
              !.state = m.start_state]

\* TuringMachine.reset
reset(m, tape_str) ==
    [m EXCEPT !.tape = IF tape_str # "" THEN List(tape_str) ELSE <<m.blank>>,
              !.head = 0,
              !.state = m.start_state]

(***************************************************************************)
(* parse_tm_description                                                    *)
(***************************************************************************)

\* the locals of parse_tm_description before the first line
ParseStart ==
    [ok |-> TRUE, error |-> "", transitions |-> <<>>,
     start_state |-> "q0", accept_state |-> "q_accept",
     reject_state |-> "q_reject", tape |-> "_"]

\* the ValueError of unpacking a list of the wrong length: the locals are lost
UnpackError ==
    [ParseStart EXCEPT !.ok = FALSE, !.error = "not enough values to unpack"]

\* symbol / write_symbol: the token blank, in any case, denotes "_"
BlankToken(sym) == IF Lower(sym) = "blank" THEN "_" ELSE sym

\* the "->" branch keeping the entry a key already has
ParseTransition_FirstWins(acc, line) ==
    LET lr == Split(line, "->", 1)
        l == StripAll(Split(lr[1], ",", 1))
        r == StripAll(Split(lr[2], ",", 2))
    IN  IF Len(l) # 2 THEN UnpackError
        ELSE IF Len(r) # 3 THEN UnpackError
        ELSE [acc EXCEPT !.transitions =
                 acc.transitions
                 @@ (<<l[1], BlankToken(l[2])>> :> <<BlankToken(r[1]), Upper(r[2]), r[3]>>)]

\* the branch of a line containing "->"
ParseTransition(acc, line) ==
    LET lr == Split(line, "->", 1)
        l == StripAll(Split(lr[1], ",", 1))
        r == StripAll(Split(lr[2], ",", 2))
    IN  IF Len(l) # 2 THEN UnpackError
        ELSE IF Len(r) # 3 THEN UnpackError
        ELSE [acc EXCEPT !.transitions =
                 (<<l[1], BlankToken(l[2])>> :> <<BlankToken(r[1]), Upper(r[2]), r[3]>>)
                 @@ acc.transitions]

\* the ":" branch comparing the key as it is written
ParseDirective_CaseSensitive(acc, line) ==
    LET kv == StripAll(Split(line, ":", 1))
        key == kv[1]
        val == kv[2]
    IN  IF key = "START" THEN [acc EXCEPT !.start_state = val]
        ELSE IF key = "ACCEPT" THEN [acc EXCEPT !.accept_state = val]
        ELSE IF key = "REJECT" THEN [acc EXCEPT !.reject_state = val]
        ELSE IF key = "TAPE" THEN [acc EXCEPT !.tape = IF val # "" THEN val ELSE "_"]
        ELSE acc

\* the branch of a line containing ":" and no "->"
ParseDirective(acc, line) ==
    LET kv == StripAll(Split(line, ":", 1))
        key == Upper(kv[1])
        val == kv[2]
    IN  IF key = "START" THEN [acc EXCEPT !.start_state = val]
        ELSE IF key = "ACCEPT" THEN [acc EXCEPT !.accept_state = val]
        ELSE IF key = "REJECT" THEN [acc EXCEPT !.reject_state = val]
        ELSE IF key = "TAPE" THEN [acc EXCEPT !.tape = IF val # "" THEN val ELSE "_"]
        ELSE acc

\* one iteration of the loop over text.splitlines()
ParseLine(acc, raw) ==
    LET line == Strip(raw)
    IN  IF line = "" \/ StartsWith(line, "#") THEN acc
        ELSE IF Contains(line, "->") THEN ParseTransition(acc, line)
        ELSE IF Contains(line, ":") THEN ParseDirective(acc, line)
        ELSE acc

RECURSIVE ParseLines(_, _)
\* the loop: an exception leaves it at the line that raised
ParseLines(acc, lines) ==
    IF lines = <<>> \/ ~acc.ok THEN acc
    ELSE ParseLines(ParseLine(acc, Head(lines)), Tail(lines))

\* parse_tm_description(raw): ok = FALSE stands for the exception raised
parse_tm_description(raw) == ParseLines(ParseStart, SplitLines(raw))

(***************************************************************************)
(* class UTMVisualizer                                                     *)
(***************************************************************************)

VARIABLES
    text,         \* the content of the description editor (self.text)
    example_var,  \* the example selected in the combobox
    tm,           \* self.tm
    running,      \* self.running
    after_id,     \* self.after_id: 0 for None, else the id root.after returned
    timers,       \* the ids of the _run_step callbacks root.after holds pending
    msg,          \* the title of the last messagebox shown, "" before any
    progressed,   \* what the last step() call returned
    call,         \* the TuringMachine method called last, and its arguments
    event         \* the log of the button and timer handlers, when one is kept:
                  \* the handler that ran last, and self.running as it began

vars == <<text, example_var, tm, running, after_id, timers, msg, progressed, call, event>>

\* self.tm = None
None == [none |-> TRUE]

\* the values of the examples combobox
ExampleNames == {"Replace a->b", "Move right until blank", "Unary increment (demo)"}

\* the sample load_example puts in the editor, after .strip()
Sample(sel) ==
    IF sel = "Replace a->b"
    THEN "# Replace all 'a' with 'b' then halt\nq0,a -> b,R,q0\nq0,b -> b,R,q0\nq0,_ -> _,S,q_accept\nSTART: q0\nACCEPT: q_accept\nREJECT: q_reject\nTAPE: aaaaaaaaaaaaaaaaaaaaaaaaabbbb_"
    ELSE IF sel = "Move right until blank"
    THEN "# Move right until blank then accept\nq0,a -> a,R,q0\nq0,b -> b,R,q0\nq0,_ -> _,S,q_accept\nSTART: q0\nACCEPT: q_accept\nREJECT: q_reject\nTAPE: aaaaaaaaaaaaaaaaaaaaabbbbbbbb_"
    ELSE "# Unary increment: add one more 1 then halt\nq0,1 -> 1,R,q0\nq0,_ -> 1,S,q_accept\nSTART: q0\nACCEPT: q_accept\nREJECT: q_reject\nTAPE: 111111111111111111_"

\* descriptions the user types into the editor
Descriptions ==
    {"q0,a -> b,R,q0\nq0,b -> b,R,q0\nq0,_ -> _,S,q_accept\nTAPE: aabb_",
     "q0,1 -> 1,R,q0\nTAPE: 10",
     "q0,x -> x,L,q1\nTAPE: x",
     "q0,a -> b,R",
     "q0,a -> b,R,q0\nq0,b -> b\nTAPE: ab",
     "q0,a -> b,R,q0,extra\nTAPE: a",
     "q0,a -> bc,R,q0\nTAPE: a",
     "START: q_accept",
     "# walk left\nstart: s\nAccept: yes\nREJECT : no\ns , blank -> BLANK , l , s\nTAPE:\nnote"}

\* further descriptions, whose tables the engine is run on
TableDescriptions ==
    {"q0 -> b,R,q1",
     "q0,a -> a,L,q_reject\nq_reject,_ -> a,R,q0\nTAPE: a",
     "q0,a -> b,R,q_accept\nq_accept,_ -> a,R,q0\nTAPE: a",
     "q0,a -> b,R,q0\nq0,a -> c,S,q_accept\nTAPE: a"}

\* further descriptions, given to the parser only
ParserDescriptions ==
    {"q0,_ -> a,R,q0\nq0 , Blank -> b,s,q_accept",
     "q0,a -> b,R,q0\nq1,a -> a,L,q1\n  q0 ,a -> a,R,q1\nq0,a->blank,l,q0\nTAPE: aa",
     "q0,A -> x,R,q0\nq0,a -> y,R,q0\n# q0,a -> w,R,q0\nq0,a -> z,R,q0",
     "",
     "ACCEPT: done",
     "start: s1\nSTART: s2\nStart : s3\nACCEPT: yes\naccept: ok\nReject: no\nREJECT: bad\nTAPE: ab\ntape: ba",
     "TAPE: ab\nTAPE:   ",
     "# START: zz\n\nSPEED: 3\nhello world\n  \nSTARTS: q9\nSTART: q1\n\tnote: TAPE: zz\nq1,a -> b,R,q1\nTAPE: a:b"}

\* the longest tape a machine is stepped on
MaxTapeLen == 31

\* every content the editor can have
Texts ==
    Descriptions \cup TableDescriptions \cup ParserDescriptions
    \cup {Sample(sel) : sel \in ExampleNames}

\* parse_tm_description(self.text.get("1.0", tk.END)) for each content of the
\* editor, computed once: get returns the content and Tk's final newline
ParseTable == {<<t, parse_tm_description(t \o "\n")>> : t \in Texts}

\* the entry of ParseTable for the editor content t
ParseOf(t) == (CHOOSE e \in ParseTable : e[1] = t)[2]

\* the id root.after returns while the callbacks pending are pending: Tk never
\* reuses an id, and an id held neither by a pending callback nor by after_id
\* is as good as a new one
NewAfterId(pending) ==
    CHOOSE i \in 1..(Cardinality(pending) + 2) :
        /\ i \notin pending \cup {after_id}
        /\ \A j \in 1..(i - 1) : j \in pending \cup {after_id}

\* call, for TuringMachine(t, p.transitions, ..., b)
NewCall(t, p, b) ==
    <<"__init__", t, p.transitions, p.start_state, p.accept_state, p.reject_state, b>>

\* tm', as the machine a successful parse gives parse_and_create_tm
Created(p) ==
    TuringMachine(p.tape, p.transitions, p.start_state, p.accept_state,
                  p.reject_state, "_")

\* parse_and_create_tm building the default machine when the parse fails
ParseAndCreate_CreatesOnError(t) ==
    LET p == ParseOf(t)
    IN  IF ~p.ok
        THEN /\ msg' = "Parse Error"
             /\ tm' = Created(ParseStart)
             /\ call' = NewCall(ParseStart.tape, ParseStart, "_")
        ELSE /\ tm' = Created(p)
             /\ call' = NewCall(p.tape, p, "_")
             /\ msg' = "TM Created"

\* parse_and_create_tm with t in the editor
ParseAndCreate(t) ==
    LET p == ParseOf(t)
    IN  IF ~p.ok
        THEN /\ msg' = "Parse Error"
             /\ UNCHANGED <<tm, call>>
        ELSE /\ tm' = Created(p)
             /\ call' = NewCall(p.tape, p, "_")
             /\ msg' = "TM Created"

\* event, where no log is kept
NoLog == <<>>

\* event', for the handler that runs
Log(handler) == IF event = NoLog THEN NoLog ELSE <<handler, running>>

\* the user replaces the editor's content
EditText ==
    /\ \E d \in Descriptions : text' = d
    /\ UNCHANGED <<example_var, tm, running, after_id, timers, msg, progressed, call, event>>

\* the user picks an example in the combobox
SelectExample ==
    /\ \E sel \in ExampleNames : example_var' = sel
    /\ UNCHANGED <<text, tm, running, after_id, timers, msg, progressed, call, event>>

\* UTMVisualizer.load_example
load_example ==
    /\ event' = Log("load_example")
    /\ text' = Sample(example_var)
    /\ ParseAndCreate(Sample(example_var))
    /\ UNCHANGED <<example_var, running, after_id, timers, progressed>>

\* UTMVisualizer.parse_and_create_tm
parse_and_create_tm ==
    /\ event' = Log("parse_and_create_tm")
    /\ ParseAndCreate(text)
    /\ UNCHANGED <<text, example_var, running, after_id, timers, progressed>>

\* the four assignments of reset_tm and tm.reset(tape)
ResetTo(m, p) ==
    reset([m EXCEPT !.transitions = p.transitions,
                    !.start_state = p.start_state,
                    !.accept_state = p.accept_state,
                    !.reject_state = p.reject_state], p.tape)

\* UTMVisualizer.reset_tm
reset_tm ==
    /\ event' = Log("reset_tm")
    /\ IF tm = None
       THEN UNCHANGED <<tm, msg, call>>
       ELSE LET p == ParseOf(text)
            IN  IF ~p.ok
                THEN /\ msg' = "Parse Error"
                     /\ UNCHANGED <<tm, call>>
                ELSE /\ tm' = ResetTo(tm, p)
                     /\ call' = <<"reset", p.tape>>
                     /\ msg' = msg
    /\ UNCHANGED <<text, example_var, running, after_id, timers, progressed>>

\* the model steps no machine whose tape has outgrown MaxTapeLen
Bounded == tm = None \/ Len(tm.tape) < MaxTapeLen

\* UTMVisualizer.step_once
step_once ==
    /\ event' = Log("step_once")
    /\ Bounded
    /\ IF tm = None
       THEN UNCHANGED <<tm, msg, progressed, call>>
       ELSE /\ tm' = step(tm).tm
            /\ progressed' = step(tm).ret
            /\ call' = <<"step">>
            /\ msg' = IF step(tm).ret THEN msg ELSE "Halted"
    /\ UNCHANGED <<text, example_var, running, after_id, timers>>

\* _run_step scheduling itself again after a step() that returned False
RunStep_NeverEnds(isRunning, pending) ==
    IF ~isRunning \/ tm = None
    THEN /\ running' = FALSE
         /\ timers' = pending
         /\ UNCHANGED <<tm, after_id, msg, progressed, call>>
    ELSE /\ tm' = step(tm).tm
         /\ progressed' = step(tm).ret
         /\ call' = <<"step">>
         /\ running' = TRUE
         /\ msg' = IF step(tm).ret THEN msg ELSE "Halted"
         /\ after_id' = NewAfterId(pending)
         /\ timers' = pending \cup {NewAfterId(pending)}

\* UTMVisualizer._run_step, entered with self.running = isRunning while the
\* callbacks pending are pending
RunStep(isRunning, pending) ==
    IF ~isRunning \/ tm = None
    THEN /\ running' = FALSE
         /\ timers' = pending
         /\ UNCHANGED <<tm, after_id, msg, progressed, call>>
    ELSE /\ tm' = step(tm).tm
         /\ progressed' = step(tm).ret
         /\ call' = <<"step">>
         /\ IF ~step(tm).ret
            THEN /\ running' = FALSE
                 /\ msg' = "Halted"
                 /\ after_id' = after_id
                 /\ timers' = pending
            ELSE /\ running' = TRUE
                 /\ msg' = msg
                 /\ after_id' = NewAfterId(pending)
                 /\ timers' = pending \cup {NewAfterId(pending)}

\* run_auto starting a loop whether or not one is running
run_auto_Unguarded ==
    /\ event' = Log("run_auto")
    /\ Bounded
    /\ IF tm = None
       THEN UNCHANGED <<tm, running, after_id, timers, msg, progressed, call>>
       ELSE RunStep(TRUE, timers)
    /\ UNCHANGED <<text, example_var>>

\* UTMVisualizer.run_auto
run_auto ==
    /\ event' = Log("run_auto")
    /\ Bounded
    /\ IF tm = None \/ running
       THEN UNCHANGED <<tm, running, after_id, timers, msg, progressed, call>>
       ELSE RunStep(TRUE, timers)
    /\ UNCHANGED <<text, example_var>>

\* a pending root.after callback fires: _run_step
TimerFire ==
    /\ event' = Log("_run_step")
    /\ Bounded
    /\ \E id \in timers : RunStep(running, timers \ {id})
    /\ UNCHANGED <<text, example_var>>

\* stop_run leaving the pending callback uncancelled
stop_run_NoCancel ==
    /\ event' = Log("stop_run")
    /\ IF ~running
       THEN UNCHANGED <<running, after_id, timers>>
       ELSE /\ running' = FALSE
            /\ after_id' = 0
            /\ timers' = timers
    /\ UNCHANGED <<text, example_var, tm, msg, progressed, call>>

\* UTMVisualizer.stop_run
stop_run ==
    /\ event' = Log("stop_run")
    /\ IF ~running
       THEN UNCHANGED <<running, after_id, timers>>
       ELSE /\ running' = FALSE
            /\ IF after_id # 0
               THEN /\ timers' = timers \ {after_id}
                    /\ after_id' = 0
               ELSE UNCHANGED <<after_id, timers>>
    /\ UNCHANGED <<text, example_var, tm, msg, progressed, call>>

\* UTMVisualizer.__init__: the first example is selected, loaded and parsed
Constructed ==
    /\ example_var = "Replace a->b"
    /\ text = Sample("Replace a->b")
    /\ tm = Created(ParseOf(Sample("Replace a->b")))
    /\ running = FALSE
    /\ after_id = 0
    /\ timers = {}
    /\ msg = "TM Created"
    /\ progressed = FALSE
    /\ call = NewCall(ParseOf(Sample("Replace a->b")).tape,
                      ParseOf(Sample("Replace a->b")), "_")

\* the window just built, no log kept
Init == Constructed /\ event = NoLog

Next ==
    \/ EditText
    \/ SelectExample
    \/ load_example
    \/ parse_and_create_tm
    \/ reset_tm
    \/ step_once
    \/ run_auto
    \/ TimerFire
    \/ stop_run

Spec == Init /\ [][Next]_vars

(***************************************************************************)
(* The engine on its own: a TuringMachine built from any of the tables the *)
(* parser yields on any of the tapes below, driven by step() and reset().  *)
(***************************************************************************)

\* the tape_str arguments given to TuringMachine() and reset()
TapeInputs == {"", "a", "x", "b_", "10", "ab", "ba_a", "aabb_"}

\* the blank arguments given to TuringMachine()
BlankInputs == {"_", "."}

\* the results of the descriptions parse_tm_description accepts
Parsed ==
    {ParseOf(d) : d \in {e \in Descriptions \cup TableDescriptions : ParseOf(e).ok}}

InitEngine ==
    /\ tm = None
    /\ example_var = "Replace a->b"
    /\ text = ""
    /\ running = FALSE
    /\ after_id = 0
    /\ timers = {}
    /\ msg = ""
    /\ progressed = FALSE
    /\ call = <<"">>
    /\ event = NoLog

\* tm = TuringMachine(t, p.transitions, ..., b)
EngNew(t, p, b) ==
    /\ tm' = TuringMachine(t, p.transitions, p.start_state, p.accept_state,
                           p.reject_state, b)
    /\ call' = NewCall(t, p, b)
    /\ UNCHANGED <<text, example_var, running, after_id, timers, msg, progressed, event>>

\* a call of tm.step()
EngStep ==
    /\ tm # None
    /\ Bounded
    /\ tm' = step(tm).tm
    /\ progressed' = step(tm).ret
    /\ call' = <<"step">>
    /\ UNCHANGED <<text, example_var, running, after_id, timers, msg, event>>

\* a call of tm.reset(t)
EngReset(t) ==
    /\ tm # None
    /\ tm' = reset(tm, t)
    /\ call' = <<"reset", t>>
    /\ UNCHANGED <<text, example_var, running, after_id, timers, msg, progressed, event>>

NextEngine ==
    \/ \E t \in TapeInputs, p \in Parsed, b \in BlankInputs : EngNew(t, p, b)
    \/ EngStep
    \/ \E t \in TapeInputs : EngReset(t)

SpecEngine == InitEngine /\ [][NextEngine]_vars

(***************************************************************************)
(* The properties                                                          *)
(***************************************************************************)

\* the symbol at Python index i of the conceptually infinite tape of m: the
\* stored cell, or the blank outside the stored cells
Cell(m, i) == IF 0 <= i /\ i < Len(m.tape) THEN m.tape[i + 1] ELSE m.blank

\* the cells a read at m.head needs stored in front of the tape
Shift(m) == IF m.head < 0 THEN -m.head ELSE 0

\* the tape at read time: the stored cells and the blanks that reach the head
TapeAtRead(m) ==
    LET last == IF m.head >= Len(m.tape) THEN m.head ELSE Len(m.tape) - 1
    IN  [i \in 1..(last + 1 + Shift(m)) |-> Cell(m, i - 1 - Shift(m))]

\* the head at read time, an index into TapeAtRead(m)
HeadAtRead(m) == m.head + Shift(m)

\* the key step() looks up
KeyAtRead(m) == <<m.state, Cell(m, m.head)>>

\* m and n differ in tape, head and state at most
SameProgram(m, n) ==
    /\ n.transitions = m.transitions
    /\ n.start_state = m.start_state
    /\ n.accept_state = m.accept_state
    /\ n.reject_state = m.reject_state
    /\ n.blank = m.blank

\* C1: step() on a machine whose state is accept_state or reject_state
\* returns False and leaves the machine exactly as it was: tape (no cell is
\* added for a head out of bounds), head and state.
C1_HaltedStepChangesNothing ==
    [][(call'[1] = "step" /\ tm # None /\ tm.state \in {tm.accept_state, tm.reject_state})
         => (tm' = tm /\ progressed' = FALSE)]_vars

\* C1 happens: step() was called on a machine halted in its accept state with
\* the head past the last stored cell
C1_Witness ==
    /\ tm # None
    /\ call[1] = "step"
    /\ progressed = FALSE
    /\ tm.state = tm.accept_state
    /\ tm.state # tm.start_state
    /\ tm.head >= Len(tm.tape)

\* C2: step() on a machine that is not halted and whose table has no entry
\* for (state, symbol under the head) returns False and sets state to
\* reject_state; tape and head are those of read time, nothing is written
\* and the head does not move.
C2_UnmatchedStepRejects ==
    [][(/\ call' = <<"step">>
        /\ tm # None
        /\ tm.state \notin {tm.accept_state, tm.reject_state}
        /\ KeyAtRead(tm) \notin DOMAIN tm.transitions)
         => (/\ progressed' = FALSE
             /\ tm'.state = tm.reject_state
             /\ tm'.tape = TapeAtRead(tm)
             /\ tm'.head = HeadAtRead(tm)
             /\ SameProgram(tm, tm'))]_vars

\* C2 happens: an unmatched step() rejected at a head that had left the
\* stored cells on the left
C2_Witness ==
    /\ tm # None
    /\ call[1] = "step"
    /\ progressed = FALSE
    /\ tm.state = tm.reject_state
    /\ tm.head = 0
    /\ Len(tm.tape) = 2
    /\ tm.tape = <<tm.blank, "x">>

\* C3: step() on a machine that is not halted and whose table maps (state,
\* symbol under the head) to (write, move, next) returns True; the cell under
\* the head holds write and every other cell is as at read time; state is
\* next; the head is one further for move R, one back for move L and where
\* it was for any other move.
C3_MatchedStepApplies ==
    [][(/\ call' = <<"step">>
        /\ tm # None
        /\ tm.state \notin {tm.accept_state, tm.reject_state}
        /\ KeyAtRead(tm) \in DOMAIN tm.transitions)
         => LET entry == tm.transitions[KeyAtRead(tm)]
                h == HeadAtRead(tm)
            IN  /\ progressed' = TRUE
                /\ Len(tm'.tape) = Len(TapeAtRead(tm))
                /\ tm'.tape[h + 1] = entry[1]
                /\ \A i \in 1..Len(tm'.tape) :
                      i # h + 1 => tm'.tape[i] = TapeAtRead(tm)[i]
                /\ tm'.state = entry[3]
                /\ tm'.head = IF entry[2] = "R" THEN h + 1
                              ELSE IF entry[2] = "L" THEN h - 1
                              ELSE h
                /\ SameProgram(tm, tm')]_vars

\* C3 happens: a step() with a Stay move wrote a new symbol and changed state
C3_Witness ==
    /\ tm # None
    /\ call[1] = "step"
    /\ progressed = TRUE
    /\ tm.tape = <<"c">>
    /\ tm.head = 0
    /\ tm.state = "q_accept"

\* C4, as claimed: a step() that moves left from head 0 has, when it
\* returns, already put one blank in front of the tape, and the head is 0.
C4_LeftStepExtendsAtOnce ==
    [][(/\ call' = <<"step">>
        /\ tm # None
        /\ tm.state \notin {tm.accept_state, tm.reject_state}
        /\ tm.head = 0
        /\ KeyAtRead(tm) \in DOMAIN tm.transitions
        /\ tm.transitions[KeyAtRead(tm)][2] = "L")
         => (/\ Len(tm'.tape) = Len(tm.tape) + 1
             /\ tm'.tape[1] = tm.blank
             /\ tm'.tape[2] = tm.transitions[KeyAtRead(tm)][1]
             /\ tm'.head = 0
             /\ tm'.state = tm.transitions[KeyAtRead(tm)][3])]_vars

\* C4, amended: a step() that moves left from head 0 returns with head -1,
\* the tape no longer than before (index 0 holds the symbol written) and the
\* state the entry names.  The blank is put in front by the next step() call,
\* and only if the machine is not halted then: that call extends the tape by
\* exactly one cell, every earlier cell is one index further (the one of
\* index 0 at index 1), and the new index 0, where the head reads, holds the
\* blank, or the symbol this second call writes.
C4_LeftStepExtendsAtNextStep ==
    [][(call' = <<"step">> /\ tm # None)
         => /\ (/\ tm.state \notin {tm.accept_state, tm.reject_state}
                /\ tm.head = 0
                /\ KeyAtRead(tm) \in DOMAIN tm.transitions
                /\ tm.transitions[KeyAtRead(tm)][2] = "L")
                  => (/\ tm'.head = -1
                      /\ tm'.tape = [tm.tape EXCEPT ![1] = tm.transitions[KeyAtRead(tm)][1]]
                      /\ tm'.state = tm.transitions[KeyAtRead(tm)][3])
            /\ (tm.head = -1 /\ tm.state \in {tm.accept_state, tm.reject_state})
                  => tm' = tm
            /\ (tm.head = -1 /\ tm.state \notin {tm.accept_state, tm.reject_state})
                  => (/\ Len(tm'.tape) = Len(tm.tape) + 1
                      /\ \A i \in 1..Len(tm.tape) : tm'.tape[i + 1] = tm.tape[i]
                      /\ IF <<tm.state, tm.blank>> \in DOMAIN tm.transitions
                         THEN /\ tm'.tape[1] = tm.transitions[<<tm.state, tm.blank>>][1]
                              /\ tm'.head \in {-1, 0, 1}
                         ELSE /\ tm'.tape[1] = tm.blank
                              /\ tm'.head = 0)]_vars

\* C4 happens: scenario 3 after its one step(), the tape not yet extended
C4_Witness ==
    /\ tm # None
    /\ call = <<"step">>
    /\ progressed = TRUE
    /\ tm.tape = <<"x">>
    /\ tm.head = -1
    /\ tm.state = "q1"

\* C5: under step() a halted machine stays in its state, so it stays halted;
\* step() makes the state reject_state only by an entry whose next state is
\* reject_state or for want of an entry; and a step() that returns False
\* leaves the machine halted.
C5_HaltedIsTerminal ==
    [][(call' = <<"step">> /\ tm # None)
         => /\ tm.state \in {tm.accept_state, tm.reject_state}
                  => tm'.state = tm.state
            /\ (tm.state # tm.reject_state /\ tm'.state = tm.reject_state)
                  => \/ KeyAtRead(tm) \notin DOMAIN tm.transitions
                     \/ tm.transitions[KeyAtRead(tm)][3] = tm.reject_state
            /\ progressed' = FALSE
                  => tm'.state \in {tm.accept_state, tm.reject_state}
            /\ SameProgram(tm, tm')]_vars

\* C5 happens: an entry naming the reject state was applied, and the table
\* has an entry for the reject state that is never to be applied
C5_Witness ==
    /\ tm # None
    /\ call = <<"step">>
    /\ progressed = FALSE
    /\ tm.state = tm.reject_state
    /\ tm.head = -1
    /\ <<tm.state, tm.blank>> \in DOMAIN tm.transitions

\* the descriptions of Descriptions with a transition line short of a field
MalformedTexts == {"q0,a -> b,R", "q0,a -> b,R,q0\nq0,b -> b\nTAPE: ab"}

\* C6: when the description in the editor has a malformed transition line,
\* parse_and_create_tm and reset_tm show the parse error and leave the
\* machine as it was: tape, head, state, table and labels; no machine is
\* built.
C6_ParseErrorKeepsMachine ==
    [][((parse_and_create_tm \/ reset_tm) /\ text \in MalformedTexts)
         => (tm' = tm /\ call' = call /\ msg' = "Parse Error")]_vars

\* C6 happens: the parse error is shown over a machine that had been stepped
C6_Witness ==
    /\ text \in MalformedTexts
    /\ msg = "Parse Error"
    /\ tm # None
    /\ call = <<"step">>
    /\ tm.head # 0

\* the number of comma-separated fields of s
FieldCount(s) == Len(Split(s, ",", Len(s)))

\* t has a transition line without exactly two fields left of "->" and three
\* right of it
WrongFieldCount(t) ==
    \E i \in 1..Len(SplitLines(t)) :
        LET line == Strip(SplitLines(t)[i])
            arrow == Find(line, "->")
        IN  /\ line # ""
            /\ ~StartsWith(line, "#")
            /\ arrow # 0
            /\ \/ FieldCount(SubSeq(line, 1, arrow - 1)) # 2
               \/ FieldCount(SubSeq(line, arrow + 2, Len(line))) # 3

\* C7, as claimed: a description with a transition line of a wrong number of
\* fields, too few or too many, is a parse error, and nothing is registered.
C7_WrongFieldCountIsError ==
    [][(parse_and_create_tm /\ WrongFieldCount(text))
         => (msg' = "Parse Error" /\ tm' = tm)]_vars

\* C8, as claimed: the tape is never empty and every cell of it holds exactly
\* one character.
C8_TapeCellsAreSymbols ==
    tm # None =>
        /\ Len(tm.tape) >= 1
        /\ \A i \in 1..Len(tm.tape) : Len(tm.tape[i]) = 1

\* the cells reset(t) and TuringMachine(t, ...) make of t, with blank b
CellsOf(t, b) == IF t = "" THEN <<b>> ELSE [i \in 1..Len(t) |-> SubSeq(t, i, i)]

\* C9: reset(tape_str), in whatever configuration it is called, makes the
\* tape the characters of tape_str, or one blank for an empty tape_str, the
\* head 0 and the state start_state; table, labels and blank stay; the machine
\* is then the one TuringMachine() builds on that tape.
C9_ResetRestartsOnNewTape ==
    [][(call'[1] = "reset" /\ tm # None)
         => (/\ tm'.tape = CellsOf(call'[2], tm.blank)
             /\ tm'.head = 0
             /\ tm'.state = tm.start_state
             /\ SameProgram(tm, tm')
             /\ tm' = TuringMachine(call'[2], tm.transitions, tm.start_state,
                                    tm.accept_state, tm.reject_state, tm.blank))]_vars

\* C9 happens: reset("") was called on a machine whose blank is "."
C9_Witness ==
    /\ tm # None
    /\ call = <<"reset", "">>
    /\ tm.blank = "."
    /\ tm.tape = <<".">>
    /\ tm.head = 0
    /\ tm.state = tm.start_state

\* C10: a machine just built is in its start state with head 0; its tape is
\* the characters of the tape_str given, or one blank for an empty one; its
\* table, labels and blank are the ones given.
C10_ConstructionIsInitial ==
    call[1] = "__init__" =>
        /\ tm.tape = CellsOf(call[2], call[7])
        /\ tm.head = 0
        /\ tm.transitions = call[3]
        /\ tm.start_state = call[4]
        /\ tm.state = call[4]
        /\ tm.accept_state = call[5]
        /\ tm.reject_state = call[6]
        /\ tm.blank = call[7]

\* C10 happens: a machine built on the empty tape_str with blank "."
C10_Witness ==
    /\ call[1] = "__init__"
    /\ call[2] = ""
    /\ call[7] = "."
    /\ tm.tape = <<".">>

\* the table of the "Replace a->b" example
ReplaceTable ==
    (<<"q0", "a">> :> <<"b", "R", "q0">>)
    @@ (<<"q0", "b">> :> <<"b", "R", "q0">>)
    @@ (<<"q0", "_">> :> <<"_", "S", "q_accept">>)

\* m is the "Replace a->b" machine about to start on a tape over {a, b, _}
ReplaceAtStart(m) ==
    /\ m.transitions = ReplaceTable
    /\ m.accept_state = "q_accept"
    /\ m.reject_state # "q0"
    /\ m.blank = "_"
    /\ m.state = "q0"
    /\ m.head = 0
    /\ \A i \in 1..Len(m.tape) : m.tape[i] \in {"a", "b", "_"}

RECURSIVE StepCalls(_, _)
\* the machine after n calls of step()
StepCalls(m, n) == IF n = 0 THEN m ELSE StepCalls(step(m).tm, n - 1)

\* the Python index of the first blank of tape, Len(tape) when it has none
FirstBlank(tape) ==
    LET at == {i \in 1..Len(tape) : tape[i] = "_"}
    IN  IF at = {} THEN Len(tape) ELSE (CHOOSE i \in at : \A j \in at : i <= j) - 1

\* tape with every "a" before Python index k made "b" and, when k is past its
\* end, one blank appended
Replaced(tape, k) ==
    [i \in 1..(IF k >= Len(tape) THEN k + 1 ELSE Len(tape)) |->
        IF i > Len(tape) THEN "_"
        ELSE IF i <= k /\ tape[i] = "a" THEN "b"
        ELSE tape[i]]

\* C11: the "Replace a->b" machine started in q0 at head 0 on a tape over
\* {a, b, _}, k being the index of its first blank (its length when it has
\* none): each of the first k + 1 step() calls returns True, the machine is not
\* halted before the last of them and is in q_accept after it, with every "a"
\* before index k made "b", a blank appended if there was none, every other
\* cell unchanged and the head at k; call k + 2 returns False.
C11_ReplaceAcceptsAfterKPlusOne ==
    (tm # None /\ ReplaceAtStart(tm)) =>
        LET k == FirstBlank(tm.tape)
            end == StepCalls(tm, k + 1)
        IN  /\ \A n \in 0..k : /\ step(StepCalls(tm, n)).ret
                               /\ StepCalls(tm, n).state = "q0"
                               /\ StepCalls(tm, n).head = n
            /\ end.state = "q_accept"
            /\ end.tape = Replaced(tm.tape, k)
            /\ end.head = k
            /\ ~step(end).ret

\* C11 happens: scenario 1 after its five steps
C11_Witness ==
    /\ tm # None
    /\ call = <<"step">>
    /\ progressed = TRUE
    /\ tm.transitions = ReplaceTable
    /\ tm.tape = <<"b", "b", "b", "b", "_">>
    /\ tm.head = 4
    /\ tm.state = "q_accept"

(***************************************************************************)
(* The parser on its own: the window just built, whose editor is given any *)
(* of the descriptions and whose Parse & Create TM and Reset buttons are   *)
(* pressed; no machine is stepped.                                         *)
(***************************************************************************)

\* the user replaces the editor's content by any of the descriptions
EditAnyText ==
    /\ \E d \in Texts : text' = d
    /\ UNCHANGED <<example_var, tm, running, after_id, timers, msg, progressed, call, event>>

NextParser ==
    \/ EditAnyText
    \/ parse_and_create_tm
    \/ reset_tm

SpecParser == Init /\ [][NextParser]_vars

\* the lines of the editor content t that parse_tm_description takes for
\* transition lines, stripped
TransitionLines(t) ==
    LET IsTransition(raw) ==
            LET line == Strip(raw)
            IN  line # "" /\ ~StartsWith(line, "#") /\ Contains(line, "->")
    IN  StripAll(SelectSeq(SplitLines(t \o "\n"), IsTransition))

\* the fields left of "->" in a transition line: state, readSymbol
LeftFields(line) == StripAll(Split(Split(line, "->", 1)[1], ",", 1))

\* the fields right of "->" in a transition line: writeSymbol, move, nextState
RightFields(line) == StripAll(Split(Split(line, "->", 1)[2], ",", 2))

\* the key a transition line is registered under
KeyOf(line) == <<LeftFields(line)[1], BlankToken(LeftFields(line)[2])>>

\* the triple a transition line registers
TripleOf(line) ==
    <<BlankToken(RightFields(line)[1]), Upper(RightFields(line)[2]), RightFields(line)[3]>>

\* every transition line of t has its two and three fields
AllLinesUnpack(t) ==
    \A i \in 1..Len(TransitionLines(t)) :
        /\ Len(LeftFields(TransitionLines(t)[i])) = 2
        /\ Len(RightFields(TransitionLines(t)[i])) = 3

\* two transition lines of t have the same key
HasRepeatedKey(t) ==
    \E i, j \in 1..Len(TransitionLines(t)) :
        i < j /\ KeyOf(TransitionLines(t)[i]) = KeyOf(TransitionLines(t)[j])

\* C12: a description whose transition lines all have their fields and in
\* which several of them have the same key (state, readSymbol), after trimming
\* and with the token blank read as "_", parses without error; the table has
\* one entry for each distinct key and no other, and maps each key to the
\* triple of the last line with that key.
C12_LastTransitionLineWins ==
    [][(parse_and_create_tm /\ AllLinesUnpack(text) /\ HasRepeatedKey(text))
         => LET L == TransitionLines(text)
            IN  /\ msg' = "TM Created"
                /\ DOMAIN tm'.transitions = {KeyOf(L[i]) : i \in 1..Len(L)}
                /\ \A i \in 1..Len(L) :
                      (\A j \in (i + 1)..Len(L) : KeyOf(L[j]) # KeyOf(L[i]))
                          => tm'.transitions[KeyOf(L[i])] = TripleOf(L[i])]_vars

\* C12 happens: a machine was built from three lines for (q0, a) and one for
\* (q1, a); the last line for (q0, a), which writes the blank, is the entry
C12_Witness ==
    /\ msg = "TM Created"
    /\ call[1] = "__init__"
    /\ HasRepeatedKey(text)
    /\ Len(TransitionLines(text)) = 4
    /\ DOMAIN tm.transitions = {<<"q0", "a">>, <<"q1", "a">>}
    /\ tm.transitions[<<"q0", "a">>] = <<"_", "L", "q0">>
    /\ tm.tape = <<"a", "a">>

\* the lines of the editor content t that parse_tm_description takes for
\* directive lines, stripped
DirectiveLines(t) ==
    LET IsDirective(raw) ==
            LET line == Strip(raw)
            IN  /\ line # ""
                /\ ~StartsWith(line, "#")
                /\ ~Contains(line, "->")
                /\ Contains(line, ":")
    IN  StripAll(SelectSeq(SplitLines(t \o "\n"), IsDirective))

\* the key of a directive line: what is left of its first ":", in upper case
DirectiveKey(line) == Upper(Strip(SubSeq(line, 1, Find(line, ":") - 1)))

\* the value of a directive line: what is right of its first ":"
DirectiveValue(line) == Strip(SubSeq(line, Find(line, ":") + 1, Len(line)))

\* the value of the last directive of key k in t, default when t has none
LastDirective(t, k, default) ==
    LET L == DirectiveLines(t)
        at == {i \in 1..Len(L) : DirectiveKey(L[i]) = k}
    IN  IF at = {} THEN default
        ELSE DirectiveValue(L[CHOOSE i \in at : \A j \in at : j <= i])

\* C13: a description whose transition lines all have their fields parses
\* without error; start, accept and reject are the values of the last START,
\* ACCEPT and REJECT directive, the key in any case, and q0, q_accept and
\* q_reject when there is none; the tape is the value of the last TAPE
\* directive, and one blank when that value is empty or there is none; the
\* table has the keys of the transition lines: unrecognized keys, comment
\* lines, blank lines and lines with neither "->" nor ":" change nothing.
C13_DirectivesAndDefaults ==
    [][(parse_and_create_tm /\ AllLinesUnpack(text))
         => LET tape == LastDirective(text, "TAPE", "_")
                L == TransitionLines(text)
            IN  /\ msg' = "TM Created"
                /\ tm'.start_state = LastDirective(text, "START", "q0")
                /\ tm'.state = LastDirective(text, "START", "q0")
                /\ tm'.accept_state = LastDirective(text, "ACCEPT", "q_accept")
                /\ tm'.reject_state = LastDirective(text, "REJECT", "q_reject")
                /\ tm'.tape = IF tape = "" THEN <<"_">> ELSE List(tape)
                /\ DOMAIN tm'.transitions = {KeyOf(L[i]) : i \in 1..Len(L)}]_vars

\* C13 happens: a machine was built from a description with a commented-out
\* directive, unrecognized keys, a line that is neither, and START and TAPE
\* directives
C13_Witness ==
    /\ msg = "TM Created"
    /\ call[1] = "__init__"
    /\ Len(DirectiveLines(text)) = 5
    /\ tm.start_state = "q1"
    /\ tm.accept_state = "q_accept"
    /\ tm.reject_state = "q_reject"
    /\ tm.tape = <<"a", ":", "b">>
    /\ DOMAIN tm.transitions = {<<"q1", "a">>}

(***************************************************************************)
(* The engine with its head attribute assigned from outside and its        *)
(* ensure_head_in_bounds method called directly.                           *)
(***************************************************************************)

\* how far outside the stored cells the head is put
MaxHeadJump == 3

\* tm.head = h, on a machine just built or reset
EngSetHead ==
    /\ tm # None
    /\ call[1] \in {"__init__", "reset"}
    /\ \E h \in (-MaxHeadJump)..(Len(tm.tape) + MaxHeadJump) :
          /\ tm' = [tm EXCEPT !.head = h]
          /\ call' = <<"head", h>>
    /\ UNCHANGED <<text, example_var, running, after_id, timers, msg, progressed, event>>

\* a call of tm.ensure_head_in_bounds()
EngEnsure ==
    /\ tm # None
    /\ tm' = ensure_head_in_bounds(tm)
    /\ call' = <<"ensure_head_in_bounds">>
    /\ UNCHANGED <<text, example_var, running, after_id, timers, msg, progressed, event>>

NextNormalize ==
    \/ \E t \in TapeInputs, p \in Parsed, b \in BlankInputs : EngNew(t, p, b)
    \/ \E t \in TapeInputs : EngReset(t)
    \/ EngSetHead
    \/ EngEnsure
    \/ EngStep

SpecNormalize == InitEngine /\ [][NextNormalize]_vars

\* C14: ensure_head_in_bounds leaves 0 <= head < len(tape), state, table,
\* labels and blank as they were; for head < 0 it puts exactly |head| blanks
\* in front, every stored symbol is |head| further and the head is moved by
\* |head|, to 0; for head >= len it appends exactly head - len + 1 blanks and
\* leaves the stored symbols and the head; else it changes nothing; a second
\* call changes nothing; and a step() of a machine that is not halted reads
\* and writes the tape so extended, at the head so moved.
C14_NormalizationExtendsToHead ==
    [][(tm # None /\ call'[1] \in {"ensure_head_in_bounds", "step"})
         => LET len == Len(tm.tape)
            IN  /\ call'[1] = "ensure_head_in_bounds"
                      => /\ 0 <= tm'.head /\ tm'.head < Len(tm'.tape)
                         /\ tm'.state = tm.state /\ SameProgram(tm, tm')
                         /\ tm.head < 0
                               => /\ Len(tm'.tape) = len - tm.head
                                  /\ \A i \in 1..(-tm.head) : tm'.tape[i] = tm.blank
                                  /\ \A i \in 1..len : tm'.tape[i - tm.head] = tm.tape[i]
                                  /\ tm'.head = 0
                         /\ tm.head >= len
                               => /\ Len(tm'.tape) = tm.head + 1
                                  /\ \A i \in 1..len : tm'.tape[i] = tm.tape[i]
                                  /\ \A i \in (len + 1)..(tm.head + 1) : tm'.tape[i] = tm.blank
                                  /\ tm'.head = tm.head
                         /\ (0 <= tm.head /\ tm.head < len) => tm' = tm
                         /\ ensure_head_in_bounds(tm') = tm'
                /\ (call'[1] = "step" /\ tm.state \notin {tm.accept_state, tm.reject_state})
                      => /\ Len(tm'.tape) = Len(TapeAtRead(tm))
                         /\ \A i \in 1..Len(tm'.tape) :
                               i # HeadAtRead(tm) + 1 => tm'.tape[i] = TapeAtRead(tm)[i]
                         /\ progressed' = (KeyAtRead(tm) \in DOMAIN tm.transitions)
                         /\ progressed'
                               => tm'.tape[HeadAtRead(tm) + 1] = tm.transitions[KeyAtRead(tm)][1]
                         /\ ~progressed'
                               => tm'.tape[HeadAtRead(tm) + 1] = TapeAtRead(tm)[HeadAtRead(tm) + 1]]_vars

\* C14 happens: ensure_head_in_bounds was called with the head at -3 over the
\* tape "ab", and put three blanks in front
C14_Witness ==
    /\ tm # None
    /\ call = <<"ensure_head_in_bounds">>
    /\ tm.blank = "."
    /\ tm.tape = <<".", ".", ".", "a", "b">>
    /\ tm.head = 0

(***************************************************************************)
(* Run mode: the window just built, its Parse & Create TM, Reset, Step,    *)
(* Run and Stop buttons pressed and its timer firing in any order, over a  *)
(* few descriptions, with the log of the handlers kept.                    *)
(***************************************************************************)

\* the descriptions typed into the editor in run mode: one that rejects at
\* its second step, one halted from the start, one that walks left for ever
\* and one that does not parse
RunDescriptions ==
    {"q0,1 -> 1,R,q0\nTAPE: 10",
     "START: q_accept",
     "# walk left\nstart: s\nAccept: yes\nREJECT : no\ns , blank -> BLANK , l , s\nTAPE:\nnote",
     "q0,a -> b,R"}

\* the user replaces the editor's content by one of RunDescriptions
EditRunText ==
    /\ \E d \in RunDescriptions : text' = d
    /\ UNCHANGED <<example_var, tm, running, after_id, timers, msg, progressed, call, event>>

\* the window just built, the log kept
InitRun == Constructed /\ event = <<"__init__", FALSE>>

NextRun ==
    \/ EditRunText
    \/ parse_and_create_tm
    \/ reset_tm
    \/ step_once
    \/ run_auto
    \/ TimerFire
    \/ stop_run

SpecRun == InitRun /\ [][NextRun]_vars

\* C15: stop_run invoked while running leaves running False, no callback
\* pending and after_id None, and does not touch the machine; whenever
\* running is False no callback is pending, so that the machine changes by
\* the Step, Reset, Parse & Create TM and Run buttons only; and running
\* becomes True again by run_auto only.
C15_StopCancelsTheLoop ==
    [][/\ (stop_run /\ running)
             => (~running' /\ timers' = {} /\ after_id' = 0 /\ tm' = tm /\ call' = call)
       /\ ~running' => timers' = {}
       /\ (~running /\ tm' # tm)
             => (step_once \/ reset_tm \/ parse_and_create_tm \/ run_auto)
       /\ (~running /\ running') => run_auto]_vars

\* C15 happens: stop_run has just ended a loop that was stepping a machine
\* not yet halted
C15_Witness ==
    /\ event = <<"stop_run", TRUE>>
    /\ ~running
    /\ timers = {}
    /\ after_id = 0
    /\ call = <<"step">>
    /\ progressed
    /\ ~Halted(tm)

(***************************************************************************)
(* The run loop left to itself: the editor and the Parse & Create TM and   *)
(* Reset buttons are used while nothing runs, Run is pressed, and every    *)
(* callback root.after holds pending fires in the end; Stop and Step are   *)
(* not pressed.                                                            *)
(***************************************************************************)

\* the machine is prepared while nothing runs
LoopSetUp ==
    /\ ~running
    /\ (EditRunText \/ parse_and_create_tm \/ reset_tm)

NextLoop ==
    \/ LoopSetUp
    \/ run_auto
    \/ TimerFire

SpecLoop == InitRun /\ [][NextLoop]_vars /\ WF_vars(TimerFire)

RECURSIVE HaltsWithin(_, _)
\* m reaches its accept or reject state after at most n step() calls, none
\* of them on a tape the model does not step
HaltsWithin(m, n) ==
    IF Halted(m) THEN TRUE
    ELSE IF n = 0 \/ Len(m.tape) >= MaxTapeLen THEN FALSE
    ELSE HaltsWithin(step(m).tm, n - 1)

\* m reaches its accept or reject state after finitely many step() calls
HaltsByStepping(m) == HaltsWithin(m, MaxTapeLen + 1)

\* C16: a loop started on a machine that halts after finitely many steps
\* ends: eventually running is False and no callback is pending; the loop
\* ends only with a step() call that returned False, the first one that
\* does, and schedules no callback then; after a step() that returned True it
\* is still running with its next callback pending, so on a machine that
\* never halts it runs on.
C16_LoopEndsWhenMachineHalts ==
    /\ (running /\ tm # None /\ HaltsByStepping(tm)) ~> (~running /\ timers = {})
    /\ [][/\ (running /\ ~running')
                => (call' = <<"step">> /\ ~progressed' /\ Halted(tm') /\ timers' = {})
          /\ (running' /\ call' = <<"step">> /\ tm # None)
                => (progressed' /\ timers' = {after_id'} /\ after_id' # 0)
          /\ (running /\ tm # None /\ ~HaltsByStepping(tm)) => running']_vars

\* C16 happens: a loop that had stepped its machine on timer ticks has ended
\* by itself, on the step() that returned False
C16_Witness ==
    /\ event = <<"_run_step", TRUE>>
    /\ ~running
    /\ timers = {}
    /\ after_id # 0
    /\ call = <<"step">>
    /\ ~progressed
    /\ msg = "Halted"
    /\ tm.state = tm.accept_state
    /\ tm.head > 0

\* C17: at most one _run_step callback is pending at any time: none while
\* running is False, and while running is True the one after_id names; Run
\* pressed while running changes nothing and schedules nothing; and a timer
\* tick calls step() at most once.
C17_AtMostOneLoop ==
    [][/\ Cardinality(timers') <= 1
       /\ ~running' => timers' = {}
       /\ running' => (after_id' # 0 /\ timers' = {after_id'})
       /\ (run_auto /\ running)
             => UNCHANGED <<tm, running, after_id, timers, msg, progressed, call>>
       /\ TimerFire
             => \/ UNCHANGED <<tm, progressed, call>>
                \/ (tm' = step(tm).tm /\ progressed' = step(tm).ret)]_vars

\* C17 happens: Run was pressed while a loop was running that had stepped
\* the machine three times at least; one callback is pending
C17_Witness ==
    /\ event = <<"run_auto", TRUE>>
    /\ running
    /\ Cardinality(timers) = 1
    /\ timers = {after_id}
    /\ call = <<"step">>
    /\ tm.head >= 3

\* C18: a machine built, reset and stepped has -1 <= head <= len(tape) and
\* len(tape) >= 1; a step() leaves the tape as long as it was or one cell
\* longer, never shorter.
C18_HeadWithinOneOfTape ==
    [][tm' # None
         => /\ -1 <= tm'.head
            /\ tm'.head <= Len(tm'.tape)
            /\ Len(tm'.tape) >= 1
            /\ (call' = <<"step">> /\ tm # None)
                  => Len(tm'.tape) \in {Len(tm.tape), Len(tm.tape) + 1}]_vars

\* C18 happens: a step() has moved the head past the last cell of the tape
C18_Witness ==
    /\ tm # None
    /\ call = <<"step">>
    /\ progressed
    /\ tm.head = Len(tm.tape)
    /\ tm.tape = <<"b", "b">>

\* a handler calls tm.step(): Step, Run when nothing runs, a timer tick of a
\* running loop
StepCalled == step_once \/ (run_auto /\ ~running) \/ (TimerFire /\ running)

\* C19: step() returns True exactly when it applied an entry of the table;
\* after a False return the machine is in its accept or reject state; a call
\* that applies an entry naming the accept or reject state returns True and
\* shows no notification, and the call after it, which changes nothing,
\* returns False; step_once and _run_step show "Halted" exactly on a False
\* return.
C19_FalseOneCallAfterEntering ==
    [][(StepCalled /\ tm # None)
         => /\ call' = <<"step">>
            /\ progressed' = (~Halted(tm) /\ KeyAtRead(tm) \in DOMAIN tm.transitions)
            /\ ~progressed' => (Halted(tm') /\ msg' = "Halted")
            /\ progressed' => msg' = msg
            /\ (~Halted(tm) /\ Halted(tm') /\ KeyAtRead(tm) \in DOMAIN tm.transitions)
                  => (progressed' /\ ~step(tm').ret /\ step(tm').tm = tm')
            /\ Halted(tm) => (~progressed' /\ tm' = tm)]_vars

\* C19 happens: the Replace a->b machine had entered q_accept by its last
\* entry, and the Step pressed after that got False and showed "Halted"
C19_Witness ==
    /\ event = <<"step_once", FALSE>>
    /\ call = <<"step">>
    /\ ~progressed
    /\ msg = "Halted"
    /\ tm.transitions = ReplaceTable
    /\ tm.start_state = "q0"
    /\ tm.state = "q_accept"
    /\ tm.head = 29

====
